---------------------------- MODULE Spec2Model ----------------------------
(***************************************************************************)
(* Stream aggregation, ranking and autoplay of NuvioStreaming.             *)
(*                                                                         *)
(*  - useMetadata hook (src/TV_SETUP.md): loadStreams, loadEpisodeStreams,  *)
(*    processStremioSource, processPluginSource, the 15 s timeout.          *)
(*  - StreamsScreen (src/src/screens/StreamsScreen.tsx): checkProviders,    *)
(*    filterStreamsByQuality, sortStreams, getBestStream, autoplay effect.  *)
(*                                                                         *)
(* Text (stream names, titles, quality patterns) is a sequence of          *)
(* one-character strings, so that the regular expressions of the code are  *)
(* computed on the characters.                                             *)
(***************************************************************************)
EXTENDS Integers, Sequences, FiniteSets, TLC

(***************************************************************************)
(* Bounds of the model.                                                    *)
(***************************************************************************)
\* most streams a result map holds in the ranking specification
MaxStreams == 3

(***************************************************************************)
(* Text helpers: JavaScript string and RegExp behaviour used by the code.  *)
(***************************************************************************)
\* The absent / empty string (undefined and '' are both falsy in `a || b`).
NoText == << >>

Digits == {"0", "1", "2", "3", "4", "5", "6", "7", "8", "9"}

DigitVal(c) ==
  CASE c = "0" -> 0 [] c = "1" -> 1 [] c = "2" -> 2 [] c = "3" -> 3
    [] c = "4" -> 4 [] c = "5" -> 5 [] c = "6" -> 6 [] c = "7" -> 7
    [] c = "8" -> 8 [] c = "9" -> 9

\* case folding of the 'i' flag, on the letters the model's texts use
Lower(c) ==
  CASE c = "K" -> "k" [] c = "P" -> "p" [] c = "M" -> "m" [] c = "X" -> "x"
    [] OTHER -> c

\* the letters the model's texts use
Letters == {"k", "K", "p", "P", "m", "M", "x", "X"}

\* \w of a JavaScript RegExp
IsWordChar(c) == c \in Digits \cup Letters \cup {"_"}

\* \b at the gap before position i (1..Len+1) of text t
WordBoundary(t, i) ==
  LET before == i > 1 /\ IsWordChar(t[i - 1])
      after  == i <= Len(t) /\ IsWordChar(t[i])
  IN  before # after

\* parseInt(digits, 10) of a non-empty run of digits
RECURSIVE ParseInt(_)
ParseInt(ds) ==
  IF ds = << >> THEN 0
  ELSE 10 * ParseInt(SubSeq(ds, 1, Len(ds) - 1)) + DigitVal(ds[Len(ds)])

\* the literal text lit occurs in t at position i, ignoring case
MatchesAt(t, i, lit) ==
  /\ i + Len(lit) - 1 <= Len(t)
  /\ \A k \in 1..Len(lit) : Lower(t[i + k - 1]) = Lower(lit[k])

\* new RegExp(escaped literal, 'i').test(t)
ContainsIgnoreCase(t, lit) == \E i \in 1..(Len(t) + 1) : MatchesAt(t, i, lit)

\* the end of the maximal run of digits that starts at position i
RECURSIVE DigitRunEnd(_, _)
DigitRunEnd(t, i) ==
  IF i < Len(t) /\ t[i + 1] \in Digits THEN DigitRunEnd(t, i + 1) ELSE i

\* s || t of JavaScript on texts
OrElse(s, t) == IF s # NoText THEN s ELSE t

(***************************************************************************)
(* Quality / priority classifier.                                          *)
(***************************************************************************)
KnownResolutions ==
  { <<"2","4","0">>, <<"3","6","0">>, <<"4","8","0">>, <<"7","2","0">>,
    <<"1","0","8","0">>, <<"1","4","4","0">>, <<"2","1","6","0">>,
    <<"4","3","2","0">>, <<"8","0","0","0">> }

\* /\b4k\b/i.test(title)
Has4K(title) ==
  \E i \in 1..Len(title) :
     /\ MatchesAt(title, i, <<"4", "k">>)
     /\ WordBoundary(title, i)
     /\ WordBoundary(title, i + 2)

\* starts of the matches of /(\d+)p/i : the greedy run of digits from i is
\* followed by p
WithPStarts(title) ==
  { i \in 1..Len(title) :
      /\ title[i] \in Digits
      /\ DigitRunEnd(title, i) < Len(title)
      /\ Lower(title[DigitRunEnd(title, i) + 1]) = "p" }

\* starts of the matches of /\b(240|360|480|720|1080|1440|2160|4320|8000)\b/i
BareStarts(title) ==
  { i \in 1..Len(title) :
      \E r \in KnownResolutions :
         /\ MatchesAt(title, i, r)
         /\ WordBoundary(title, i)
         /\ WordBoundary(title, i + Len(r)) }

Min(S) == CHOOSE x \in S : \A y \in S : x <= y

\* A faulty QualityFromTitle: a bare resolution is looked for before a number
\* followed by p.
QualityFromTitle_BareBeforeP(title) ==
  IF title = NoText THEN 0
  ELSE IF Has4K(title) THEN 2160
  ELSE IF BareStarts(title) # {} THEN
         LET s == Min(BareStarts(title))
             r == CHOOSE r \in KnownResolutions :
                    /\ MatchesAt(title, s, r)
                    /\ WordBoundary(title, s + Len(r))
         IN  ParseInt(r)
  ELSE IF WithPStarts(title) # {} THEN
         LET s == Min(WithPStarts(title))
         IN  ParseInt(SubSeq(title, s, DigitRunEnd(title, s)))
  ELSE 0

\* the body of getQualityNumeric, on the characters of the title
QualityFromTitle(title) ==
  IF title = NoText THEN 0
  ELSE IF Has4K(title) THEN 2160
  ELSE IF WithPStarts(title) # {} THEN
         LET s == Min(WithPStarts(title))
         IN  ParseInt(SubSeq(title, s, DigitRunEnd(title, s)))
  ELSE IF BareStarts(title) # {} THEN
         LET s == Min(BareStarts(title))
             r == CHOOSE r \in KnownResolutions :
                    /\ MatchesAt(title, s, r)
                    /\ WordBoundary(title, s + Len(r))
             quality == ParseInt(r)
         IN  IF quality >= 240 /\ quality <= 8000 THEN quality ELSE 0
  ELSE 0

\* the texts the model's stream names, titles and patterns are drawn from
T1080p == <<"1", "0", "8", "0", "p">>
T720p  == <<"7", "2", "0", "p">>
T720   == <<"7", "2", "0">>
X720P  == <<"7", "2", "0", "P">>

P1Name == <<"P", "1", "\n", "1", "0", "8", "0", "p">>

ModelTexts == {NoText, T1080p, T720p, T720, X720P, P1Name}

\* getQualityNumeric on the model's texts, computed once
QualityTable == [t \in ModelTexts |-> QualityFromTitle(t)]

getQualityNumeric(title) ==
  IF title \in ModelTexts THEN QualityTable[title] ELSE QualityFromTitle(title)

\* installedAddons.findIndex(addon => addon.id === addonId), 0-based, -1 if absent
FindIndex(installedAddons, addonId) ==
  IF \E i \in 1..Len(installedAddons) : installedAddons[i] = addonId
  THEN Min({ i \in 1..Len(installedAddons) : installedAddons[i] = addonId }) - 1
  ELSE -1

getProviderPriority(installedAddons, addonId) ==
  LET addonIndex == FindIndex(installedAddons, addonId)
  IN  IF addonIndex # -1 THEN 50 - addonIndex ELSE 0


(***************************************************************************)
(* Stream records and the result map.                                      *)
(*   Stream: url, name, title, cached (behaviorHints?.cached), addonId,    *)
(*   addonName.  A GroupedStreams object is the sequence of its entries in *)
(*   insertion order (the order of Object.entries): key, addonName,        *)
(*   streams.                                                              *)
(***************************************************************************)
Null == [null |-> TRUE]

\* an array-valued argument or field that is undefined
Undefined == <<Null>>

Range(s) == { s[i] : i \in 1..Len(s) }

Keys(streamsData) == { streamsData[i].key : i \in 1..Len(streamsData) }

HasKey(streamsData, k) == k \in Keys(streamsData)

\* streamsData[k]
Entry(streamsData, k) ==
  streamsData[CHOOSE i \in 1..Len(streamsData) : streamsData[i].key = k]

\* { ...prevState, [k]: { addonName, streams } } : an existing key keeps its
\* place, a new key is added last
PutEntry(prevState, k, addonName, streams) ==
  LET e == [key |-> k, addonName |-> addonName, streams |-> streams]
  IN  IF HasKey(prevState, k)
      THEN [i \in 1..Len(prevState) |->
              IF prevState[i].key = k THEN e ELSE prevState[i]]
      ELSE Append(prevState, e)

RECURSIVE Flatten(_)
Flatten(ss) == IF ss = << >> THEN << >> ELSE Head(ss) \o Flatten(Tail(ss))

(***************************************************************************)
(* Array.prototype.sort with a comparator: a stable sort (ES2019).         *)
(* cmp[a][b] is the comparator's number; x goes after the last element     *)
(* that does not compare greater than it.                                  *)
(***************************************************************************)
RECURSIVE InsertPos(_, _, _, _)
InsertPos(cmp, sorted, x, j) ==
  IF j = 0 THEN 0
  ELSE IF cmp[sorted[j]][x] > 0 THEN InsertPos(cmp, sorted, x, j - 1) ELSE j

InsertSorted(cmp, sorted, x) ==
  LET j == InsertPos(cmp, sorted, x, Len(sorted))
  IN  SubSeq(sorted, 1, j) \o <<x>> \o SubSeq(sorted, j + 1, Len(sorted))

RECURSIVE ArraySort(_, _)
ArraySort(cmp, s) ==
  IF s = << >> THEN << >>
  ELSE InsertSorted(cmp, ArraySort(cmp, SubSeq(s, 1, Len(s) - 1)), s[Len(s)])

(***************************************************************************)
(* filterStreamsByQuality                                                  *)
(***************************************************************************)
\* A faulty hasExcludedQuality: the pattern is matched with the case of its
\* letters.
hasExcludedQuality_CaseSensitive(stream, excludedQualities) ==
  LET streamTitle == OrElse(stream.title, stream.name)
  IN  \E k \in 1..Len(excludedQualities) :
         \E i \in 1..(Len(streamTitle) + 1) :
            /\ i + Len(excludedQualities[k]) - 1 <= Len(streamTitle)
            /\ \A c \in 1..Len(excludedQualities[k]) :
                  streamTitle[i + c - 1] = excludedQualities[k][c]

hasExcludedQuality(stream, excludedQualities) ==
  LET streamTitle == OrElse(stream.title, stream.name)
  IN  \E k \in 1..Len(excludedQualities) :
         ContainsIgnoreCase(streamTitle, excludedQualities[k])

filterStreamsByQuality(streams, excludedQualities) ==
  IF Len(excludedQualities) = 0 THEN streams
  ELSE LET keep(stream) == ~hasExcludedQuality(stream, excludedQualities)
       IN  SelectSeq(streams, keep)

(***************************************************************************)
(* sortStreams                                                             *)
(***************************************************************************)
\* A faulty CompareStreams: the sort mode is ignored, quality always comes
\* before the provider.
CompareStreams_QualityAlways(a, b, streamSortMode, installedAddons) ==
  LET qualityA == getQualityNumeric(OrElse(a.name, a.title))
      qualityB == getQualityNumeric(OrElse(b.name, b.title))
      providerPriorityA ==
        getProviderPriority(installedAddons,
                            IF a.addonId # "" THEN a.addonId ELSE a.addonName)
      providerPriorityB ==
        getProviderPriority(installedAddons,
                            IF b.addonId # "" THEN b.addonId ELSE b.addonName)
  IN  IF a.cached # b.cached THEN (IF a.cached THEN -1 ELSE 1)
      ELSE IF qualityA # qualityB THEN qualityB - qualityA
      ELSE IF providerPriorityA # providerPriorityB
           THEN providerPriorityB - providerPriorityA
      ELSE 0

\* A faulty CompareStreams: records with equal keys compare as out of order.
CompareStreams_TiesOutOfOrder(a, b, streamSortMode, installedAddons) ==
  LET qualityA == getQualityNumeric(OrElse(a.name, a.title))
      qualityB == getQualityNumeric(OrElse(b.name, b.title))
      providerPriorityA ==
        getProviderPriority(installedAddons,
                            IF a.addonId # "" THEN a.addonId ELSE a.addonName)
      providerPriorityB ==
        getProviderPriority(installedAddons,
                            IF b.addonId # "" THEN b.addonId ELSE b.addonName)
  IN  IF a.cached # b.cached THEN (IF a.cached THEN -1 ELSE 1)
      ELSE IF streamSortMode = "quality-then-scraper" THEN
             IF qualityA # qualityB THEN qualityB - qualityA
             ELSE IF providerPriorityA # providerPriorityB
                  THEN providerPriorityB - providerPriorityA
                  ELSE 1
      ELSE IF providerPriorityA # providerPriorityB
             THEN providerPriorityB - providerPriorityA
           ELSE IF qualityA # qualityB THEN qualityB - qualityA
           ELSE 1

\* the comparator of sortStreams: negative when a goes first
CompareStreams(a, b, streamSortMode, installedAddons) ==
  LET qualityA == getQualityNumeric(OrElse(a.name, a.title))
      qualityB == getQualityNumeric(OrElse(b.name, b.title))
      providerPriorityA ==
        getProviderPriority(installedAddons,
                            IF a.addonId # "" THEN a.addonId ELSE a.addonName)
      providerPriorityB ==
        getProviderPriority(installedAddons,
                            IF b.addonId # "" THEN b.addonId ELSE b.addonName)
      isCachedA == a.cached
      isCachedB == b.cached
  IN  IF isCachedA # isCachedB THEN (IF isCachedA THEN -1 ELSE 1)
      ELSE IF streamSortMode = "quality-then-scraper" THEN
             IF qualityA # qualityB THEN qualityB - qualityA
             ELSE IF providerPriorityA # providerPriorityB
                  THEN providerPriorityB - providerPriorityA
                  ELSE 0
      ELSE IF providerPriorityA # providerPriorityB
             THEN providerPriorityB - providerPriorityA
           ELSE IF qualityA # qualityB THEN qualityB - qualityA
           ELSE 0

sortStreams(streams, streamSortMode, installedAddons) ==
  LET cmp == [a \in Range(streams) |-> [b \in Range(streams) |->
                CompareStreams(a, b, streamSortMode, installedAddons)]]
  IN  ArraySort(cmp, streams)

(***************************************************************************)
(* getBestStream                                                           *)
(***************************************************************************)
\* A faulty CollectAllStreams: the streams are collected without the quality
\* filter.
CollectAllStreams_Unfiltered(streamsData, excludedQualities, installedAddons) ==
  LET ofEntry(e) ==
        [i \in 1..Len(e.streams) |->
           [stream |-> e.streams[i],
            quality |-> getQualityNumeric(OrElse(e.streams[i].name,
                                                 e.streams[i].title)),
            providerPriority |-> getProviderPriority(installedAddons, e.key),
            isCached |-> e.streams[i].cached]]
  IN  Flatten([i \in 1..Len(streamsData) |-> ofEntry(streamsData[i])])

\* the records of allStreams, in the order they are pushed
CollectAllStreams(streamsData, excludedQualities, installedAddons) ==
  LET ofEntry(e) ==
        LET filteredStreams == filterStreamsByQuality(e.streams, excludedQualities)
        IN  [i \in 1..Len(filteredStreams) |->
               [stream |-> filteredStreams[i],
                quality |-> getQualityNumeric(OrElse(filteredStreams[i].name,
                                                     filteredStreams[i].title)),
                providerPriority |-> getProviderPriority(installedAddons, e.key),
                isCached |-> filteredStreams[i].cached]]
  IN  Flatten([i \in 1..Len(streamsData) |-> ofEntry(streamsData[i])])

\* A faulty CompareBest: quality is compared before the cached flag.
CompareBest_QualityBeforeCached(a, b) ==
  IF a.quality # b.quality THEN b.quality - a.quality
  ELSE IF a.isCached # b.isCached THEN (IF a.isCached THEN -1 ELSE 1)
  ELSE IF a.providerPriority # b.providerPriority
       THEN b.providerPriority - a.providerPriority
  ELSE 0

\* the comparator of getBestStream
CompareBest(a, b) ==
  IF a.isCached # b.isCached THEN (IF a.isCached THEN -1 ELSE 1)
  ELSE IF a.quality # b.quality THEN b.quality - a.quality
  ELSE IF a.providerPriority # b.providerPriority
       THEN b.providerPriority - a.providerPriority
  ELSE 0

\* A faulty getBestStream: the candidates are ranked with sortStreams, under
\* the display sort mode.
getBestStream_DisplayOrder(streamsData, excludedQualities, streamSortMode, installedAddons) ==
  LET filtered == [i \in 1..Len(streamsData) |->
                     filterStreamsByQuality(streamsData[i].streams,
                                            excludedQualities)]
      sorted == sortStreams(Flatten(filtered), streamSortMode, installedAddons)
  IN  IF Len(sorted) = 0 THEN Null ELSE sorted[1]

getBestStream(streamsData, excludedQualities, streamSortMode, installedAddons) ==
  IF Len(streamsData) = 0 THEN Null
  ELSE LET allStreams ==
             CollectAllStreams(streamsData, excludedQualities, installedAddons)
           cmp == [a \in Range(allStreams) |-> [b \in Range(allStreams) |->
                     CompareBest(a, b)]]
       IN  IF Len(allStreams) = 0 THEN Null
           ELSE ArraySort(cmp, allStreams)[1].stream


(***************************************************************************)
(* State.                                                                  *)
(***************************************************************************)
VARIABLES
  \* --- StreamsScreen: route and settings
  type,                   \* route.params.type: "movie" or "series"
  target,                 \* route.params.id (movie) or episodeId (series)
  autoplayBestStream,     \* settings.autoplayBestStream
  \* --- useMetadata
  metadata,               \* Null, or [id, videos]
  groupedStreams,
  loadingStreams,
  episodeStreams,
  loadingEpisodeStreams,
  \* --- StreamsScreen state
  autoplayTriggered,
  isAutoplayWaiting,
  hasStreamProviders,
  showNoSourcesError,
  \* --- tasks in flight
  checks,                 \* runs of checkProviders that are at an await
  reqs,                   \* the calls of loadStreams / loadEpisodeStreams
                          \* that launched the adapters, oldest first
  noSourcesTimers,        \* pending 500 ms timers of checkProviders
  \* --- history
  nRuns,                  \* runs of the checkProviders effect so far
  reported,               \* per key: the latest batch reported since the
                          \* map was last cleared, and the latest with streams
  failures,               \* a provider failed since the map was last cleared
  plays,                  \* the streams the autoplay effect handed to
                          \* handleStreamPress since checkProviders last
                          \* reset the autoplay state
  \* --- ranking specification: inputs of the pure functions, and a result
  rkStreamsData,     \* a result map (GroupedStreams)
  rkExcluded,        \* settings.excludedQualities
  rkSortMode,        \* settings.streamSortMode
  rkInstalled,       \* ids of stremioService.getInstalledAddons(), in order
  rkResult,          \* Null, or [op, value]: the function applied and its result
  \* --- StreamsScreen: the provider filter and the display setting
  streamDisplayMode,      \* settings.streamDisplayMode: "grouped" or "separate"
  selectedProvider,       \* 'all', 'grouped-plugins' or a provider id
  availableProviders      \* a Set of provider ids, in insertion order

rkVars == <<rkStreamsData, rkExcluded, rkSortMode, rkInstalled, rkResult>>

routeVars == <<type, target, autoplayBestStream>>

hookVars == <<metadata, groupedStreams, loadingStreams, episodeStreams,
              loadingEpisodeStreams>>

screenVars == <<autoplayTriggered, isAutoplayWaiting, hasStreamProviders,
                showNoSourcesError>>

taskVars == <<checks, reqs, noSourcesTimers>>

ghostVars == <<reported, failures>>

histVars == <<nRuns, ghostVars, plays>>

appVars == <<routeVars, hookVars, screenVars, taskVars, histVars>>

displayVars == <<streamDisplayMode, selectedProvider, availableProviders>>

vars == <<appVars, rkVars, displayVars>>

(***************************************************************************)
(* Universe of the ranking specification.                                  *)
(***************************************************************************)
Stream(url, name, title, cached, addonId) ==
  [url |-> url, name |-> name, title |-> title, cached |-> cached,
   addonId |-> addonId, addonName |-> addonId]

RankStreams ==
  { Stream("u1", T1080p, T720p, FALSE, "A2"),
    Stream("u2", T720p, NoText, FALSE, "A1"),
    Stream("u3", NoText, T720, FALSE, "A1"),
    Stream("u4", NoText, T720, TRUE, "A2") }

RankKeys == {"A1", "A2"}

SortModes == {"scraper-then-quality", "quality-then-scraper"}

RankInstalled == { <<"A1", "A2">>, <<"A2", "A1">>, << >> }

RankExcluded == { << >>, <<X720P>>, <<T1080p, X720P>> }

SeqsUpTo(S, n) == UNION { [1..k -> S] : k \in 0..n }

\* the streams of every entry, in entry order
AllStreamsOf(streamsData) ==
  Flatten([i \in 1..Len(streamsData) |-> streamsData[i].streams])

\* result maps of at most MaxStreams streams, under one key or split between
\* two distinct keys
RankMaps ==
  LET lists == SeqsUpTo(RankStreams, MaxStreams)
      entry(k, l) == [key |-> k, addonName |-> k, streams |-> l]
      one == { <<entry(k, l)>> : k \in RankKeys, l \in lists }
      split(l) == { <<entry(ks[1], SubSeq(l, 1, j)),
                      entry(ks[2], SubSeq(l, j + 1, Len(l)))>> :
                      ks \in { <<"A1", "A2">>, <<"A2", "A1">> }, j \in 0..Len(l) }
      two == UNION { split(l) : l \in lists }
  IN  {<< >>} \cup one \cup two

\* the state of the screen when it is mounted: the first render of the hook
\* and of the screen, with the checkProviders effect of that render started
Mounted ==
  /\ metadata = Null
  /\ groupedStreams = << >>
  /\ loadingStreams = FALSE
  /\ episodeStreams = << >>
  /\ loadingEpisodeStreams = FALSE
  /\ autoplayTriggered = FALSE
  /\ isAutoplayWaiting = FALSE
  /\ hasStreamProviders = TRUE
  /\ showNoSourcesError = FALSE
  /\ selectedProvider = "all"
  /\ availableProviders = << >>
  /\ checks = << [metadata |-> Null, loading |-> FALSE, target |-> target,
                  autoplayBestStream |-> autoplayBestStream] >>
  /\ reqs = << >>
  /\ noSourcesTimers = 0
  /\ nRuns = 1
  /\ reported = << >>
  /\ failures = FALSE
  /\ plays = << >>

InitRank ==
  /\ type = "movie" /\ target = "X" /\ autoplayBestStream = FALSE
  /\ Mounted
  /\ streamDisplayMode = "separate"
  /\ rkStreamsData \in RankMaps
  /\ rkExcluded \in RankExcluded
  /\ rkSortMode \in SortModes
  /\ rkInstalled \in RankInstalled
  /\ rkResult = Null

\* A faulty ApplySortStreams: the sort is made in place, on the arrays of the
\* map (streams.sort instead of [...streams].sort).
ApplySortStreams_InPlace ==
  /\ rkResult = Null
  /\ rkResult' = [op |-> "sortStreams",
                  value |-> sortStreams(AllStreamsOf(rkStreamsData),
                                        rkSortMode, rkInstalled)]
  /\ rkStreamsData' =
       [i \in 1..Len(rkStreamsData) |->
          [rkStreamsData[i] EXCEPT
             !.streams = sortStreams(rkStreamsData[i].streams, rkSortMode,
                                     rkInstalled)]]
  /\ UNCHANGED <<rkExcluded, rkSortMode, rkInstalled, appVars, displayVars>>

\* sortStreams(streams) on the streams of the map, as `sections` calls it
ApplySortStreams ==
  /\ rkResult = Null
  /\ rkResult' = [op |-> "sortStreams",
                  value |-> sortStreams(AllStreamsOf(rkStreamsData),
                                        rkSortMode, rkInstalled)]
  /\ UNCHANGED <<rkStreamsData, rkExcluded, rkSortMode, rkInstalled, appVars,
               displayVars>>

\* getBestStream(streams), as the autoplay effect calls it
ApplyGetBestStream ==
  /\ rkResult = Null
  /\ rkResult' = [op |-> "getBestStream",
                  value |-> getBestStream(rkStreamsData, rkExcluded,
                                          rkSortMode, rkInstalled)]
  /\ UNCHANGED <<rkStreamsData, rkExcluded, rkSortMode, rkInstalled, appVars,
               displayVars>>

\* filterStreamsByQuality(streams) on the streams of the map
ApplyFilterStreams ==
  /\ rkResult = Null
  /\ rkResult' = [op |-> "filterStreamsByQuality",
                  value |-> filterStreamsByQuality(AllStreamsOf(rkStreamsData),
                                                   rkExcluded)]
  /\ UNCHANGED <<rkStreamsData, rkExcluded, rkSortMode, rkInstalled, appVars,
               displayVars>>

NextRank == ApplySortStreams \/ ApplyGetBestStream \/ ApplyFilterStreams

SpecRank == InitRank /\ [][NextRank]_vars


(***************************************************************************)
(* Universe of the classifier specification: getProviderPriority and       *)
(* getQualityNumeric on their own.  rkInstalled is the installed order,    *)
(* rkResult the call made: its argument and the value returned.            *)
(***************************************************************************)
MaxInstalled == 52

\* the id of the i-th addon
AddonNo(i) == "addon" \o ToString(i)

\* an id no installed addon has (a plugin scraper's name)
AbsentAddon == "plugin"

\* installed orders of every length up to MaxInstalled, in both directions
InstalledOrders ==
  UNION { { [i \in 1..n |-> AddonNo(i)], [i \in 1..n |-> AddonNo(n + 1 - i)] } :
            n \in 0..MaxInstalled }

QueriedAddons == { AddonNo(i) : i \in 1..MaxInstalled } \cup {AbsentAddon}

InitClassify ==
  /\ type = "movie" /\ target = "X" /\ autoplayBestStream = FALSE
  /\ Mounted
  /\ streamDisplayMode = "separate"
  /\ rkStreamsData = << >>
  /\ rkExcluded = << >>
  /\ rkSortMode = "scraper-then-quality"
  /\ rkInstalled \in InstalledOrders
  /\ rkResult = Null

\* getProviderPriority(addonId)
ApplyGetProviderPriority(addonId) ==
  /\ rkResult = Null
  /\ rkResult' = [op |-> "getProviderPriority", arg |-> addonId,
                  value |-> getProviderPriority(rkInstalled, addonId)]
  /\ UNCHANGED <<rkStreamsData, rkExcluded, rkSortMode, rkInstalled, appVars,
               displayVars>>

\* titles for getQualityNumeric on its own
T4K           == <<"4", "K">>
T4K1080p      == <<"4", "K", " ", "1", "0", "8", "0", "p">>
T720then1080p == <<"7", "2", "0", " ", "1", "0", "8", "0", "p">>
T1080pThen4k  == <<"1", "0", "8", "0", "p", " ", "4", "k">>
T9999         == <<"9", "9", "9", "9">>
T9999then480  == <<"9", "9", "9", "9", " ", "4", "8", "0">>
T14k          == <<"1", "4", "k">>
Tx1080        == <<"x", "1", "0", "8", "0">>
TNoNumber     == <<"x", "m", "p">>

ClassifyTitles ==
  { NoText, T4K, T4K1080p, T720then1080p, T1080pThen4k, T1080p, X720P, T720,
    T9999, T9999then480, T14k, Tx1080, TNoNumber }

\* getQualityNumeric(title)
ApplyGetQualityNumeric(title) ==
  /\ rkResult = Null
  /\ rkResult' = [op |-> "getQualityNumeric", arg |-> title,
                  value |-> getQualityNumeric(title)]
  /\ UNCHANGED <<rkStreamsData, rkExcluded, rkSortMode, rkInstalled, appVars,
               displayVars>>

NextClassify ==
  \/ \E addonId \in QueriedAddons : ApplyGetProviderPriority(addonId)
  \/ \E title \in ClassifyTitles : ApplyGetQualityNumeric(title)

SpecClassify == InitClassify /\ [][NextClassify]_vars

(***************************************************************************)
(* Universe of the application specification.                              *)
(***************************************************************************)
Targets == {"X", "Y", "Z"}

\* stremioService.getInstalledAddons(), and settings.excludedQualities
InstalledAddons == <<"A1", "A2">>

ExcludedQualities == <<X720P>>

Addons == {"A1", "A2"}

SA1lo == Stream("a1-lo", T720p, NoText, FALSE, "A1")
SA1hi == Stream("a1-hi", T1080p, NoText, FALSE, "A1")
SA2c  == Stream("a2-c", NoText, T720, TRUE, "A2")
SP1   == Stream("p1", P1Name, NoText, FALSE, "")
SPu   == Stream("pu", NoText, T720p, FALSE, "")
SP1b  == Stream("p1b", P1Name, T720p, FALSE, "")

\* a stream a plugin returns without the property `name`
SPn ==
  [url |-> "pn", title |-> T1080p, cached |-> FALSE, addonId |-> "",
   addonName |-> ""]

\* what an addon may hand to the callback as `streams`
AddonBatches(a) ==
  IF a = "A1" THEN { << >>, <<SA1lo>>, <<SA1lo, SA1hi>> }
  ELSE { <<SA2c>> }

\* the arguments an addon's answer may reach the callback with: streams, or
\* streams without the addon's name, or an error with or without streams
CallbackArgs(a) ==
  { [streams |-> b, addonId |-> a, addonName |-> a, error |-> FALSE] :
      b \in AddonBatches(a) }
  \cup { [streams |-> b, addonId |-> a, addonName |-> "", error |-> FALSE] :
      b \in AddonBatches(a) \ {<< >>} }
  \cup { [streams |-> b, addonId |-> a, addonName |-> a, error |-> TRUE] :
      b \in {Undefined} \cup (AddonBatches(a) \ {<< >>}) }

\* what pluginManager.getAllStreams may resolve to
PluginResults == { << >>, <<SPu, SP1>> }

\* a result of pluginManager.getAllStreams that holds a stream without name
NamelessPluginResults == { <<SP1, SPn>> }

\* most runs of the checkProviders effect: the mount, then one change of the
\* route or of the autoplay setting for each other target
MaxRuns == Cardinality(Targets)

\* the metadata the hook loads for the route
LoadedMetadata ==
  IF type = "movie" THEN [id |-> target, videos |-> Undefined]
  ELSE [id |-> "show", videos |-> <<[id |-> "X"], [id |-> "Y"]>>]

isEpisode == type = "series"

\* type === 'series' ? episodeStreams : groupedStreams
currentStreamsData == IF isEpisode THEN episodeStreams ELSE groupedStreams

\* type === 'series' ? loadingEpisodeStreams : loadingStreams
isLoading == IF isEpisode THEN loadingEpisodeStreams ELSE loadingStreams

\* the request the screen is showing: the latest call that launched adapters
Current == Len(reqs)

(***************************************************************************)
(* useMetadata: the stream state setters, for movies or for episodes.      *)
(***************************************************************************)
\* setEpisodeStreams / setGroupedStreams and setLoading(Episode)Streams
SetStreamState(newStreams, newLoading) ==
  IF isEpisode
  THEN /\ episodeStreams' = newStreams
       /\ loadingEpisodeStreams' = newLoading
       /\ UNCHANGED <<groupedStreams, loadingStreams>>
  ELSE /\ groupedStreams' = newStreams
       /\ loadingStreams' = newLoading
       /\ UNCHANGED <<episodeStreams, loadingEpisodeStreams>>

\* the guards of loadStreams and of loadEpisodeStreams, on the metadata of
\* the render the function belongs to
LoadGuard(capturedMetadata, episodeId) ==
  IF isEpisode
  THEN /\ capturedMetadata # Null
       /\ capturedMetadata.videos # Undefined
       /\ \E v \in Range(capturedMetadata.videos) : v.id = episodeId
  ELSE capturedMetadata # Null

\* the adapters loadStreams launches, both before it awaits anything
NewRequest(id, capturedLoading) ==
  [id |-> id,
   capLoading |-> capturedLoading,  \* loadingStreams of the closure
   stremio |-> "pending",           \* processStremioSource's promise
   plugin |-> "pending",            \* processPluginSource's promise
   phase |-> "awaiting",            \* loadStreams: at Promise.all, then settled
   timer |-> "unarmed"]             \* the 15 s timeout

\* A faulty LoadStreamsCall: the flag is set and the map cleared before the
\* guard is tested.
LoadStreamsCall_ClearsBeforeGuard(c) ==
  /\ SetStreamState(<< >>, TRUE)
  /\ IF LoadGuard(c.metadata, c.target)
     THEN /\ reqs' = Append(reqs,
                       NewRequest(IF isEpisode THEN c.target ELSE c.metadata.id,
                                  c.loading))
          /\ reported' = << >>
          /\ failures' = FALSE
     ELSE UNCHANGED <<metadata, reqs, ghostVars>>

\* loadStreams() / loadEpisodeStreams(episodeId), up to the await
LoadStreamsCall(c) ==
  IF LoadGuard(c.metadata, c.target)
  THEN /\ SetStreamState(<< >>, TRUE)
       /\ reqs' = Append(reqs,
                    NewRequest(IF isEpisode THEN c.target ELSE c.metadata.id,
                               c.loading))
       /\ reported' = << >>
       /\ failures' = FALSE
  ELSE UNCHANGED <<hookVars, reqs, ghostVars>>

(***************************************************************************)
(* StreamsScreen: the checkProviders effect.                               *)
(***************************************************************************)
\* what the effect's closure holds: the render's hook values and props
Capture(newTarget, newAutoplay) ==
  [metadata |-> metadata, loading |-> isLoading, target |-> newTarget,
   autoplayBestStream |-> newAutoplay]

RemoveAt(s, i) == SubSeq(s, 1, i - 1) \o SubSeq(s, i + 1, Len(s))

\* the route changes (another movie id or episode id) once the check of the
\* previous run has answered: the effect runs again
RouteChange(t) ==
  /\ nRuns < MaxRuns /\ checks = << >>
  /\ t # target
  /\ target' = t
  /\ checks' = Append(checks, Capture(t, autoplayBestStream))
  /\ nRuns' = nRuns + 1
  /\ UNCHANGED <<type, autoplayBestStream, hookVars, screenVars, reqs,
                 noSourcesTimers, ghostVars, plays, rkVars, displayVars>>

\* settings.autoplayBestStream changes once the check of the previous run has
\* answered: the effect runs again
ToggleAutoplay ==
  /\ nRuns < MaxRuns /\ checks = << >>
  /\ autoplayBestStream' = ~autoplayBestStream
  /\ checks' = Append(checks, Capture(target, ~autoplayBestStream))
  /\ nRuns' = nRuns + 1
  /\ UNCHANGED <<type, target, hookVars, screenVars, reqs, noSourcesTimers,
                 ghostVars, plays, rkVars, displayVars>>

\* loadMetadata sets the metadata of the route's content
MetadataLoaded ==
  /\ metadata # LoadedMetadata
  /\ metadata' = LoadedMetadata
  /\ UNCHANGED <<routeVars, groupedStreams, loadingStreams, episodeStreams,
                 loadingEpisodeStreams, screenVars, taskVars, histVars, rkVars, displayVars>>

\* checkProviders after its awaits, with what the two services answered
CheckProvidersResume(i, hasStremioProviders, hasLocalScrapers) ==
  /\ i \in 1..Len(checks)
  /\ LET c == checks[i]
         hasProviders == hasStremioProviders \/ hasLocalScrapers
     IN  /\ checks' = RemoveAt(checks, i)
         /\ hasStreamProviders' = hasProviders
         /\ IF ~hasProviders
            THEN /\ noSourcesTimers' = noSourcesTimers + 1
                 /\ UNCHANGED <<hookVars, reqs, ghostVars, autoplayTriggered,
                                isAutoplayWaiting, plays>>
            ELSE /\ LoadStreamsCall(c)
                 /\ autoplayTriggered' = FALSE
                 /\ isAutoplayWaiting' = c.autoplayBestStream
                 /\ plays' = << >>
                 /\ UNCHANGED <<metadata, noSourcesTimers>>
  /\ UNCHANGED <<routeVars, showNoSourcesError, nRuns, rkVars, displayVars>>

\* the 500 ms timer of checkProviders
NoSourcesTimerFires ==
  /\ noSourcesTimers > 0
  /\ noSourcesTimers' = noSourcesTimers - 1
  /\ showNoSourcesError' = TRUE
  /\ UNCHANGED <<routeVars, hookVars, autoplayTriggered, isAutoplayWaiting,
                 hasStreamProviders, checks, reqs, histVars, rkVars, displayVars>>

(***************************************************************************)
(* useMetadata: processStremioSource.                                      *)
(***************************************************************************)
\* A faulty updateState: the new state is built without the previous one.
updateState_NoSpread(prevState, addonId, addonName, batch) ==
  PutEntry(<< >>, addonId, addonName, batch)

\* updateState of the callback: { ...prevState, [addonId]: { addonName, streams } }
updateState(prevState, addonId, addonName, batch) ==
  PutEntry(prevState, addonId, addonName, batch)

\* the batches reported for key k since the map was cleared: the latest
\* one, and the latest that held streams
Report(k, batch) ==
  LET prev == IF k \in DOMAIN reported THEN reported[k].lastNonEmpty ELSE << >>
      rec == [last |-> batch,
              lastNonEmpty |-> IF batch # << >> THEN batch ELSE prev]
  IN  [x \in DOMAIN reported \cup {k} |-> IF x = k THEN rec ELSE reported[x]]

\* the callback stores the batch: no error, the three arguments truthy (a
\* missing or empty addonId or addonName is ""), and streams.length > 0
CallbackMerges(batch, addonId, addonName, error) ==
  /\ ~error
  /\ batch # Undefined /\ addonId # "" /\ addonName # ""
  /\ Len(batch) > 0

\* A faulty StremioCallbackState: an error removes the entry of the addon.
StremioCallbackState_ErrorRemovesEntry(r, batch, addonId, addonName, error) ==
  IF error
  THEN [streams |-> SelectSeq(currentStreamsData, LAMBDA e : e.key # addonId),
        loading |-> isLoading]
  ELSE IF CallbackMerges(batch, addonId, addonName, error)
  THEN [streams |-> updateState(currentStreamsData, addonId, addonName, batch),
        loading |-> FALSE]
  ELSE [streams |-> currentStreamsData, loading |-> isLoading]

\* A faulty StremioCallbackState: the batch is kept until the plugin adapter
\* has answered.
StremioCallbackState_AfterPlugins(r, batch, addonId, addonName, error) ==
  IF CallbackMerges(batch, addonId, addonName, error) /\ reqs[r].plugin # "pending"
  THEN [streams |-> updateState(currentStreamsData, addonId, addonName, batch),
        loading |-> FALSE]
  ELSE [streams |-> currentStreamsData, loading |-> isLoading]

\* A faulty StremioCallbackState: the batch is merged and the loading flag is
\* left as it is.
StremioCallbackState_KeepsLoading(r, batch, addonId, addonName, error) ==
  IF CallbackMerges(batch, addonId, addonName, error)
  THEN [streams |-> updateState(currentStreamsData, addonId, addonName, batch),
        loading |-> isLoading]
  ELSE [streams |-> currentStreamsData, loading |-> isLoading]

\* the stream state after the callback (streams, addonId, addonName, error)
\* of request r
StremioCallbackState(r, batch, addonId, addonName, error) ==
  IF CallbackMerges(batch, addonId, addonName, error)
  THEN [streams |-> updateState(currentStreamsData, addonId, addonName, batch),
        loading |-> FALSE]
  ELSE [streams |-> currentStreamsData, loading |-> isLoading]

\* stremioService.getStreams calls the callback of request r
StremioCallback(r, batch, addonId, addonName, error) ==
  /\ r \in 1..Len(reqs)
  /\ LET new == StremioCallbackState(r, batch, addonId, addonName, error)
     IN  SetStreamState(new.streams, new.loading)
  /\ reported' = IF ~error /\ batch # Undefined /\ addonId # "" /\ addonName # ""
                 THEN Report(addonId, batch)
                 ELSE reported
  /\ failures' = (failures \/ error)
  /\ UNCHANGED <<routeVars, metadata, screenVars, taskVars, nRuns,
                 plays, rkVars, displayVars>>

\* A faulty StremioSettled: there is no catch around the call of getStreams.
StremioSettled_NoCatch(threw) == IF threw THEN "rejected" ELSE "resolved"

\* how processStremioSource settles when getStreams returns or throws: the
\* catch logs the error
StremioSettled(threw) == "resolved"

\* await stremioService.getStreams(...) returns or throws
StremioReturns(r, threw) ==
  /\ r \in 1..Len(reqs)
  /\ reqs[r].stremio = "pending"
  /\ reqs' = [reqs EXCEPT ![r].stremio = StremioSettled(threw)]
  /\ failures' = (failures \/ threw)
  /\ UNCHANGED <<routeVars, hookVars, screenVars, checks, noSourcesTimers,
                 nRuns, reported, plays, rkVars, displayVars>>

(***************************************************************************)
(* useMetadata: processPluginSource.                                       *)
(***************************************************************************)
\* the characters of a text joined into a string
RECURSIVE Join(_)
Join(cs) == IF cs = << >> THEN "" ELSE Head(cs) \o Join(Tail(cs))

\* text.split('\n')[0]
RECURSIVE FirstLine(_)
FirstLine(text) ==
  IF text = << >> \/ Head(text) = "\n" THEN << >>
  ELSE <<Head(text)>> \o FirstLine(Tail(text))

\* stream.name.split('\n')[0] || 'Unknown Plugin'
pluginName(stream) ==
  IF FirstLine(stream.name) # << >> THEN Join(FirstLine(stream.name))
  ELSE "Unknown Plugin"

\* streams.reduce(...): the streams grouped by plugin name, the groups in the
\* order of their first stream
RECURSIVE streamsByPlugin(_, _)
streamsByPlugin(acc, list) ==
  IF list = << >> THEN acc
  ELSE LET stream == Head(list)
           name == pluginName(stream)
           sofar == IF HasKey(acc, name) THEN Entry(acc, name).streams ELSE << >>
       IN  streamsByPlugin(PutEntry(acc, name, name, Append(sofar, stream)),
                           Tail(list))

\* { ...prevState, ...streamsByPlugin }
RECURSIVE SpreadInto(_, _)
SpreadInto(prevState, entries) ==
  IF entries = << >> THEN prevState
  ELSE SpreadInto(PutEntry(prevState, Head(entries).key,
                           Head(entries).addonName, Head(entries).streams),
                  Tail(entries))

RECURSIVE ReportAll(_, _)
ReportAll(rep, entries) ==
  IF entries = << >> THEN rep
  ELSE LET e == Head(entries)
           rec == [last |-> e.streams, lastNonEmpty |-> e.streams]
       IN  ReportAll([x \in DOMAIN rep \cup {e.key} |->
                        IF x = e.key THEN rec ELSE rep[x]], Tail(entries))

\* how processPluginSource settles: the catch logs the error
PluginSettled(threw) == "resolved"

\* stream.name.split throws a TypeError inside the reduce when a stream has
\* no name
ReduceThrows(streams) ==
  \E i \in 1..Len(streams) : "name" \notin DOMAIN streams[i]

\* pluginManager.getAllStreams resolves with the streams of the plugins
PluginReturns(r, result) ==
  /\ r \in 1..Len(reqs)
  /\ reqs[r].plugin = "pending"
  /\ IF Len(result) > 0 /\ ~ReduceThrows(result)
     THEN /\ SetStreamState(SpreadInto(currentStreamsData,
                                       streamsByPlugin(<< >>, result)), FALSE)
          /\ reported' = ReportAll(reported, streamsByPlugin(<< >>, result))
     ELSE UNCHANGED <<groupedStreams, loadingStreams, episodeStreams,
                      loadingEpisodeStreams, reported>>
  /\ reqs' = [reqs EXCEPT ![r].plugin = PluginSettled(ReduceThrows(result))]
  /\ failures' = (failures \/ ReduceThrows(result))
  /\ UNCHANGED <<routeVars, metadata, screenVars, checks, noSourcesTimers,
                 nRuns, plays, rkVars, displayVars>>

\* pluginManager.getAllStreams (or AsyncStorage.getItem) throws
PluginThrows(r) ==
  /\ r \in 1..Len(reqs)
  /\ reqs[r].plugin = "pending"
  /\ reqs' = [reqs EXCEPT ![r].plugin = PluginSettled(TRUE)]
  /\ failures' = TRUE
  /\ UNCHANGED <<routeVars, hookVars, screenVars, checks, noSourcesTimers,
                 nRuns, reported, plays, rkVars, displayVars>>

(***************************************************************************)
(* useMetadata: loadStreams after Promise.all, and the 15 s timeout.       *)
(***************************************************************************)
\* await Promise.all([stremioPromise, pluginPromise]) settles: loadStreams
\* arms the timeout, or rejects with the first rejection
LoadStreamsContinues(r) ==
  /\ r \in 1..Len(reqs)
  /\ reqs[r].phase = "awaiting"
  /\ reqs[r].stremio # "pending" /\ reqs[r].plugin # "pending"
  /\ IF reqs[r].stremio = "rejected" \/ reqs[r].plugin = "rejected"
     THEN reqs' = [reqs EXCEPT ![r].phase = "rejected"]
     ELSE reqs' = [reqs EXCEPT ![r].phase = "resolved", ![r].timer = "armed"]
  /\ UNCHANGED <<routeVars, hookVars, screenVars, checks, noSourcesTimers,
                 histVars, rkVars, displayVars>>

\* the loading flag after the timeout callback: if (loadingStreams) reads
\* the closure of the render that loadStreams belongs to
TimeoutLoading(capturedLoading) == IF capturedLoading THEN FALSE ELSE isLoading

\* A faulty TimeoutFires: the timeout also discards the results.
TimeoutFires_ClearsMap(r) ==
  /\ r \in 1..Len(reqs)
  /\ reqs[r].timer = "armed"
  /\ reqs' = [reqs EXCEPT ![r].timer = "fired"]
  /\ SetStreamState(<< >>, TimeoutLoading(reqs[r].capLoading))
  /\ UNCHANGED <<routeVars, metadata, screenVars, checks, noSourcesTimers,
                 histVars, rkVars, displayVars>>

\* the callback of setTimeout(..., 15000) of request r
TimeoutFires(r) ==
  /\ r \in 1..Len(reqs)
  /\ reqs[r].timer = "armed"
  /\ reqs' = [reqs EXCEPT ![r].timer = "fired"]
  /\ SetStreamState(currentStreamsData, TimeoutLoading(reqs[r].capLoading))
  /\ UNCHANGED <<routeVars, metadata, screenVars, checks, noSourcesTimers,
                 histVars, rkVars, displayVars>>

(***************************************************************************)
(* StreamsScreen: the autoplay effect.                                     *)
(***************************************************************************)
\* A faulty AutoplayFlags: the effect leaves its two flags as they are.
AutoplayFlags_Unchanged(bestStream) ==
  [triggered |-> autoplayTriggered, waiting |-> isAutoplayWaiting]

\* autoplayTriggered and isAutoplayWaiting after the effect found bestStream
AutoplayFlags(bestStream) ==
  IF bestStream # Null
  THEN [triggered |-> TRUE, waiting |-> FALSE]
  ELSE [triggered |-> autoplayTriggered, waiting |-> FALSE]

\* A faulty AutoplayEffect: the effect does not read the autoplay setting.
AutoplayEffect_IgnoresSetting ==
  /\ ~autoplayTriggered /\ isAutoplayWaiting
  /\ Len(currentStreamsData) > 0
  /\ LET bestStream == getBestStream(currentStreamsData, ExcludedQualities,
                                     "scraper-then-quality", InstalledAddons)
         flags == AutoplayFlags(bestStream)
     IN  /\ autoplayTriggered' = flags.triggered
         /\ isAutoplayWaiting' = flags.waiting
         /\ plays' = IF bestStream # Null THEN Append(plays, bestStream)
                     ELSE plays
  /\ UNCHANGED <<routeVars, hookVars, hasStreamProviders, showNoSourcesError,
                 taskVars, nRuns, ghostVars, rkVars, displayVars>>

\* the effect runs after a render and finds streams: it plays the best
\* stream, or stops waiting when there is none
AutoplayEffect ==
  /\ autoplayBestStream /\ ~autoplayTriggered /\ isAutoplayWaiting
  /\ Len(currentStreamsData) > 0
  /\ LET bestStream == getBestStream(currentStreamsData, ExcludedQualities,
                                     "scraper-then-quality", InstalledAddons)
         flags == AutoplayFlags(bestStream)
     IN  /\ autoplayTriggered' = flags.triggered
         /\ isAutoplayWaiting' = flags.waiting
         /\ plays' = IF bestStream # Null THEN Append(plays, bestStream)
                     ELSE plays
  /\ UNCHANGED <<routeVars, hookVars, hasStreamProviders, showNoSourcesError,
                 taskVars, nRuns, ghostVars, rkVars, displayVars>>

(***************************************************************************)
(* The specification of the requests: autoplay is disabled in the settings, *)
(* the providers answer with anything they may answer.                     *)
(***************************************************************************)
RankingIdle ==
  /\ rkStreamsData = << >>
  /\ rkExcluded = << >>
  /\ rkSortMode = "scraper-then-quality"
  /\ rkInstalled = << >>
  /\ rkResult = Null

Init ==
  /\ type \in {"movie", "series"}
  /\ target = "X"
  /\ autoplayBestStream = FALSE
  /\ Mounted
  /\ streamDisplayMode = "separate"
  /\ RankingIdle

\* the requests that launched their adapters
Requests == 1..Len(reqs)

Next ==
  \/ \E t \in {"X", "Y"} : RouteChange(t)
  \/ MetadataLoaded
  \/ \E i \in 1..Len(checks), s, l \in BOOLEAN : CheckProvidersResume(i, s, l)
  \/ NoSourcesTimerFires
  \/ \E r \in Requests, a \in Addons :
       \E args \in CallbackArgs(a) :
          StremioCallback(r, args.streams, args.addonId, args.addonName,
                          args.error)
  \/ \E r \in Requests, threw \in BOOLEAN : StremioReturns(r, threw)
  \/ \E r \in Requests, res \in PluginResults \cup NamelessPluginResults :
       PluginReturns(r, res)
  \/ \E r \in Requests : PluginThrows(r)
  \/ \E r \in Requests : LoadStreamsContinues(r)
  \/ \E r \in Requests : TimeoutFires(r)

Spec == Init /\ [][Next]_vars

(***************************************************************************)
(* The specification of autoplay: autoplay is enabled in the settings, a   *)
(* series whose metadata lacks one of the episodes the route may name.     *)
(***************************************************************************)
InitAutoplay ==
  /\ type = "series"
  /\ target = "X"
  /\ autoplayBestStream = TRUE
  /\ Mounted
  /\ streamDisplayMode = "separate"
  /\ RankingIdle

NextAutoplay ==
  \/ \E t \in Targets : RouteChange(t)
  \/ ToggleAutoplay
  \/ MetadataLoaded
  \/ \E i \in 1..Len(checks) : CheckProvidersResume(i, TRUE, FALSE)
  \/ \E r \in Requests, a \in Addons :
       \E b \in AddonBatches(a) : StremioCallback(r, b, a, a, FALSE)
  \/ \E r \in Requests : StremioReturns(r, FALSE)
  \/ \E r \in Requests, res \in PluginResults : PluginReturns(r, res)
  \/ \E r \in Requests : LoadStreamsContinues(r)
  \/ \E r \in Requests : TimeoutFires(r)
  \/ AutoplayEffect

SpecAutoplay == InitAutoplay /\ [][NextAutoplay]_vars

(***************************************************************************)
(* StreamsScreen: the provider filter and the sections.                    *)
(* rkExcluded, rkSortMode and rkInstalled hold the settings and the        *)
(* installed addons the screen reads.                                      *)
(***************************************************************************)
DisplayModes == {"grouped", "separate"}

\* localScraperService.getRepositoryName()
RepositoryName == "Plugins"

\* installedAddons.some(addon => addon.id === provider)
isInstalledAddon(provider) == FindIndex(rkInstalled, provider) # -1

\* new Set([...]) / Array.includes guard: first occurrences, in order
RECURSIVE Dedupe(_)
Dedupe(s) ==
  IF s = << >> THEN << >>
  ELSE LET d == Dedupe(SubSeq(s, 1, Len(s) - 1))
       IN  IF s[Len(s)] \in Range(d) THEN d ELSE Append(d, s[Len(s)])

\* the keys of the entries with streams && streams.length > 0
providersWithStreams(streamsData) ==
  LET has(e) == Len(e.streams) > 0
      kept == SelectSeq(streamsData, has)
  IN  [i \in 1..Len(kept) |-> kept[i].key]

\* the comparator on provider ids: installed addons in installed order, then
\* the others
CompareInstalled(a, b) ==
  LET indexA == FindIndex(rkInstalled, a)
      indexB == FindIndex(rkInstalled, b)
  IN  IF indexA # -1 /\ indexB # -1 THEN indexA - indexB
      ELSE IF indexA # -1 THEN -1
      ELSE IF indexB # -1 THEN 1
      ELSE 0

\* names.join(', ')
RECURSIVE JoinNames(_)
JoinNames(names) ==
  IF names = << >> THEN ""
  ELSE IF Len(names) = 1 THEN names[1]
  ELSE names[1] \o ", " \o JoinNames(Tail(names))

\* the effect on the stream state: setAvailableProviders.  (The effect also
\* derives loadingProviders['stremio'] from the loading flags; no addon of the
\* model has that id.)
AvailableProvidersEffect ==
  /\ LET found == providersWithStreams(currentStreamsData)
     IN  availableProviders' =
           IF Len(found) > 0 THEN Dedupe(availableProviders \o found)
           ELSE availableProviders
  /\ UNCHANGED <<streamDisplayMode, selectedProvider, appVars, rkVars>>

\* the effect that resets the selected provider
SelectedProviderEffect ==
  /\ selectedProvider \notin {"all", "grouped-plugins"}
  /\ LET hasStreamsForProvider ==
           /\ HasKey(currentStreamsData, selectedProvider)
           /\ Len(Entry(currentStreamsData, selectedProvider).streams) > 0
         isAvailableProvider == selectedProvider \in Range(availableProviders)
     IN  selectedProvider' =
           IF ~isAvailableProvider /\ ~hasStreamsForProvider THEN "all"
           ELSE selectedProvider
  /\ UNCHANGED <<streamDisplayMode, availableProviders, appVars, rkVars>>

\* filterItems: the chips of the provider filter
filterItems ==
  LET streams == currentStreamsData
      allProviders ==
        Dedupe(availableProviders \o providersWithStreams(streams))
      cmp == [a \in Range(allProviders) |-> [b \in Range(allProviders) |->
                CompareInstalled(a, b)]]
      chip(provider) ==
        [id |-> provider,
         name |-> IF isInstalledAddon(provider) THEN provider
                  ELSE IF HasKey(streams, provider)
                          /\ Entry(streams, provider).addonName # ""
                       THEN Entry(streams, provider).addonName
                  ELSE provider]
      all == <<[id |-> "all", name |-> "All Providers"]>>
  IN  IF streamDisplayMode = "grouped"
      THEN LET addonProviders ==
                 ArraySort(cmp, SelectSeq(allProviders, isInstalledAddon))
               pluginProviders ==
                 SelectSeq(allProviders, LAMBDA p : ~isInstalledAddon(p))
           IN  all
               \o [i \in 1..Len(addonProviders) |->
                     [id |-> addonProviders[i], name |-> addonProviders[i]]]
               \o (IF Len(pluginProviders) > 0
                   THEN <<[id |-> "grouped-plugins", name |-> RepositoryName]>>
                   ELSE << >>)
      ELSE LET sorted == ArraySort(cmp, allProviders)
           IN  all \o [i \in 1..Len(sorted) |-> chip(sorted[i])]

\* handleProviderChange(provider): a chip of the ProviderFilter is pressed;
\* the filter is rendered when the map has a key
handleProviderChange(provider) ==
  /\ Len(currentStreamsData) > 0
  /\ \E i \in 1..Len(filterItems) : filterItems[i].id = provider
  /\ selectedProvider' = provider
  /\ UNCHANGED <<streamDisplayMode, availableProviders, appVars, rkVars>>

\* sections: what the SectionList shows
sections ==
  LET streams == currentStreamsData
      shown(e) ==
        IF selectedProvider = "all" THEN TRUE
        ELSE IF streamDisplayMode = "grouped"
                /\ selectedProvider = "grouped-plugins"
             THEN ~isInstalledAddon(e.key)
        ELSE e.key = selectedProvider
      selected == SelectSeq(streams, shown)
      cmp == [a \in Range(selected) |-> [b \in Range(selected) |->
                CompareInstalled(a.key, b.key)]]
      filteredEntries == ArraySort(cmp, selected)
      sortedStreams(e) ==
        sortStreams(filterStreamsByQuality(e.streams, rkExcluded),
                    rkSortMode, rkInstalled)
      final(list) ==
        IF rkSortMode = "quality-then-scraper"
        THEN sortStreams(list, rkSortMode, rkInstalled) ELSE list
  IN  IF streamDisplayMode = "grouped"
      THEN LET addons == SelectSeq(filteredEntries,
                                   LAMBDA e : isInstalledAddon(e.key))
               plugins == SelectSeq(filteredEntries,
                                    LAMBDA e : ~isInstalledAddon(e.key))
               addonStreams ==
                 Flatten([i \in 1..Len(addons) |-> sortedStreams(addons[i])])
               pluginStreams ==
                 Flatten([i \in 1..Len(plugins) |-> sortedStreams(plugins[i])])
               addonNames ==
                 Dedupe([i \in 1..Len(addons) |-> addons[i].addonName])
           IN  (IF Len(addonStreams) > 0
                THEN <<[title |-> JoinNames(addonNames),
                        addonId |-> "grouped-addons",
                        data |-> final(addonStreams)]>>
                ELSE << >>)
               \o (IF Len(pluginStreams) > 0
                   THEN <<[title |-> RepositoryName,
                           addonId |-> "grouped-plugins",
                           data |-> final(pluginStreams)]>>
                   ELSE << >>)
      ELSE [i \in 1..Len(filteredEntries) |->
              [title |-> filteredEntries[i].addonName,
               addonId |-> filteredEntries[i].key,
               data |-> sortedStreams(filteredEntries[i])]]

(***************************************************************************)
(* The display specification: the stream state changes as the hook changes *)
(* it (a load clears the map, an addon's batch or the plugins' streams are *)
(* merged), and the screen's effects and the provider filter follow it.    *)
(***************************************************************************)
DisplayInstalled == { <<"A1", "A2">>, <<"A2">> }

DisplayBatches == { <<SA1lo>>, <<SA1lo, SA1hi>>, <<SA2c>> }

InitDisplay ==
  /\ type = "movie" /\ target = "X" /\ autoplayBestStream = FALSE
  /\ Mounted
  /\ streamDisplayMode \in DisplayModes
  /\ rkStreamsData = << >>
  /\ rkExcluded = ExcludedQualities
  /\ rkSortMode \in SortModes
  /\ rkInstalled \in DisplayInstalled
  /\ rkResult = Null

\* loadStreams clears the map
DisplayLoadStarts ==
  /\ SetStreamState(<< >>, TRUE)
  /\ UNCHANGED <<routeVars, metadata, screenVars, taskVars, histVars, rkVars,
                 displayVars>>

\* the callback of an addon merges a batch
DisplayBatchMerged(batch) ==
  /\ SetStreamState(updateState(currentStreamsData, batch[1].addonId,
                                batch[1].addonName, batch), FALSE)
  /\ UNCHANGED <<routeVars, metadata, screenVars, taskVars, histVars, rkVars,
                 displayVars>>

\* processPluginSource merges the streams of the plugins
DisplayPluginsMerged(result) ==
  /\ Len(result) > 0
  /\ SetStreamState(SpreadInto(currentStreamsData,
                               streamsByPlugin(<< >>, result)), FALSE)
  /\ UNCHANGED <<routeVars, metadata, screenVars, taskVars, histVars, rkVars,
                 displayVars>>

\* settings.streamDisplayMode changes while the screen is mounted
DisplayModeChanges ==
  /\ streamDisplayMode' \in DisplayModes \ {streamDisplayMode}
  /\ UNCHANGED <<selectedProvider, availableProviders, appVars, rkVars>>

NextDisplay ==
  \/ DisplayModeChanges
  \/ DisplayLoadStarts
  \/ \E batch \in DisplayBatches : DisplayBatchMerged(batch)
  \/ \E result \in PluginResults : DisplayPluginsMerged(result)
  \/ AvailableProvidersEffect
  \/ SelectedProviderEffect
  \/ \E provider \in {"all", "grouped-plugins", "A1", "A2", "P1", "Unknown Plugin"} :
        handleProviderChange(provider)

SpecDisplay == InitDisplay /\ [][NextDisplay]_vars

(***************************************************************************)
(* The plugin specification: processPluginSource receives one result of    *)
(* pluginManager.getAllStreams after another and merges it into the map;   *)
(* rkResult holds the result it received last.                             *)
(***************************************************************************)
MaxPluginStreams == 2

PluginStreams == {SP1, SP1b, SPu, SPn}

InitPlugin ==
  /\ type = "movie" /\ target = "X" /\ autoplayBestStream = FALSE
  /\ Mounted
  /\ streamDisplayMode = "separate"
  /\ RankingIdle

\* processPluginSource from the answer of getAllStreams to its return
PluginStreamsProcessed(streams) ==
  /\ IF Len(streams) > 0 /\ ~ReduceThrows(streams)
     THEN SetStreamState(SpreadInto(currentStreamsData,
                                    streamsByPlugin(<< >>, streams)), FALSE)
     ELSE UNCHANGED <<groupedStreams, loadingStreams, episodeStreams,
                      loadingEpisodeStreams>>
  /\ rkResult' = [op |-> "processPluginSource", arg |-> streams,
                  value |-> ReduceThrows(streams)]
  /\ UNCHANGED <<routeVars, metadata, screenVars, taskVars, histVars,
                 rkStreamsData, rkExcluded, rkSortMode, rkInstalled,
                 displayVars>>

NextPlugin ==
  \E streams \in SeqsUpTo(PluginStreams, MaxPluginStreams) :
     PluginStreamsProcessed(streams)

SpecPlugin == InitPlugin /\ [][NextPlugin]_vars

(***************************************************************************)
(* StreamsScreen: the state display of the render.  streamsLoadStart is    *)
(* << >> for null or <<t>> for the Date.now() of checkProviders, now is    *)
(* the Date.now() of the render, both in milliseconds.                     *)
(***************************************************************************)
\* Object.keys(streams).length === 0
streamsEmpty == Len(currentStreamsData) = 0

\* streamsLoadStart ? Date.now() - streamsLoadStart : 0
loadElapsed(streamsLoadStart, now) ==
  IF streamsLoadStart # << >> /\ streamsLoadStart[1] # 0
  THEN now - streamsLoadStart[1]
  ELSE 0

showInitialLoading(streamsLoadStart, now) ==
  streamsEmpty /\ (streamsLoadStart = << >>
                   \/ loadElapsed(streamsLoadStart, now) < 10000)

showStillFetching(streamsLoadStart, now) ==
  streamsEmpty /\ loadElapsed(streamsLoadStart, now) >= 10000

\* which of the five views the render shows below the provider filter
StateDisplay(streamsLoadStart, now) ==
  IF showNoSourcesError THEN "no-sources"
  ELSE IF streamsEmpty
  THEN IF showInitialLoading(streamsLoadStart, now) THEN "initial-loading"
       ELSE IF showStillFetching(streamsLoadStart, now) THEN "still-fetching"
       ELSE "no-streams"
  ELSE "streams"

\* the times checkProviders may read when it starts a load, and the times a
\* later render may read: within 10 s, after 10 s, after the 15 s timeout
LoadStartTimes == { <<1000>> }

ClockReadings == { 1000, 10999, 11000, 16000, 61000 }

(***************************************************************************)
(* Claims about the requests (specification Spec) and about autoplay       *)
(* (specification SpecAutoplay).                                           *)
(***************************************************************************)
\* the streams the map holds under key k, none when it has no such entry
StreamsOf(k) ==
  IF HasKey(currentStreamsData, k) THEN Entry(currentStreamsData, k).streams
  ELSE << >>

\* the keys for which a provider reported streams since the map was cleared
Delivered == { k \in DOMAIN reported : reported[k].lastNonEmpty # << >> }

\* C1: once a request for content Y has superseded a request for content X,
\* no batch produced for X is merged into the map: a step in which the plugin
\* adapter of the superseded request returns leaves the map as it was.
C1_StaleBatchIsDropped ==
  [][\A r \in Requests :
        ( /\ Len(reqs') = Len(reqs)
          /\ r < Current
          /\ reqs[r].id # reqs[Current].id
          /\ reqs[r].plugin = "pending"
          /\ reqs'[r].plugin # "pending" )
        => currentStreamsData' = currentStreamsData]_vars

\* C2: once a provider has delivered a batch A, the entry of that provider
\* holds exactly the streams of the latest batch B it reported, whatever the
\* length of B.
C2_EntryHoldsLatestBatch ==
  \A k \in Delivered : StreamsOf(k) = reported[k].last

\* C3: between two resets of the autoplay state by checkProviders, the
\* autoplay effect calls handleStreamPress at most once, whatever map
\* updates and adapter completions follow the call.
C3_AutoplayAtMostOnce ==
  /\ Len(plays) <= 1
  /\ Len(plays) = 1 => autoplayTriggered /\ ~isAutoplayWaiting

\* C3 witness: autoplay has played a stream, and the map has since been
\* updated so that another stream is now the best one.
C3_Witness ==
  /\ Len(plays) = 1
  /\ getBestStream(currentStreamsData, ExcludedQualities,
                   "scraper-then-quality", InstalledAddons) # plays[1]

\* C4: when the 15 s timeout of the current request has fired, the loading
\* flag is false.
C4_TimeoutForcesLoadingFalse ==
  (Len(reqs) > 0 /\ reqs[Current].timer = "fired") => ~isLoading

C6_FailureIsIsolated ==
  failures =>
    /\ \A r \in Requests :
         /\ reqs[r].phase # "rejected"
         /\ reqs[r].stremio # "rejected"
         /\ reqs[r].plugin # "rejected"
    /\ \A k \in Delivered : StreamsOf(k) = reported[k].lastNonEmpty

\* C6 witness: a provider failed, the call of loadStreams went on to arm its
\* timeout, and the map holds the streams of the other providers.
C6_Witness ==
  /\ failures
  /\ Len(reqs) = 1
  /\ reqs[1].phase = "resolved"
  /\ Keys(currentStreamsData) = {"A1", "A2"}

\* C7: a batch of streams is in the map, and the loading flag is false, in
\* the very step that delivers it, whatever the state of the other adapters.
C7_MergedOnDelivery ==
  [][\A k \in DOMAIN reported' :
        ( /\ (k \notin DOMAIN reported \/ reported'[k] # reported[k])
          /\ reported'[k].last # << >> )
        => /\ HasKey(currentStreamsData', k)
           /\ Entry(currentStreamsData', k).streams = reported'[k].last
           /\ ~isLoading']_vars

\* C7 witness: the only request has an addon's streams in the map while
\* neither getStreams nor the plugin adapter has returned.
C7_Witness ==
  /\ Len(reqs) = 1
  /\ reqs[1].stremio = "pending" /\ reqs[1].plugin = "pending"
  /\ Keys(currentStreamsData) = {"A2"}
  /\ ~isLoading

(***************************************************************************)
(* Ranking claims (specification SpecRank).                                *)
(***************************************************************************)
BestApplied == rkResult # Null /\ rkResult.op = "getBestStream"

SortApplied == rkResult # Null /\ rkResult.op = "sortStreams"

\* a text matches an excluded pattern, ignoring case
Excluded(stream, patterns) ==
  \E k \in 1..Len(patterns) :
     ContainsIgnoreCase(OrElse(stream.title, stream.name), patterns[k])

\* the candidates of a result map: every stream with the key of its entry, in
\* entry order, without the streams that match an excluded pattern
Candidates(streamsData, patterns) ==
  LET tagged == Flatten([i \in 1..Len(streamsData) |->
                   [j \in 1..Len(streamsData[i].streams) |->
                      [stream |-> streamsData[i].streams[j],
                       key |-> streamsData[i].key]]])
      kept(c) == ~Excluded(c.stream, patterns)
  IN  SelectSeq(tagged, kept)

QualityOf(stream) == getQualityNumeric(OrElse(stream.name, stream.title))

\* a comes strictly before b in the order: first key descending, then second,
\* then third
LexBefore(ka, kb) ==
  \/ ka[1] > kb[1]
  \/ ka[1] = kb[1] /\ ka[2] > kb[2]
  \/ ka[1] = kb[1] /\ ka[2] = kb[2] /\ ka[3] > kb[3]

CachedRank(stream) == IF stream.cached THEN 1 ELSE 0

\* cached, quality, provider priority of a candidate
BestKey(c, installed) ==
  <<CachedRank(c.stream), QualityOf(c.stream), getProviderPriority(installed, c.key)>>

\* C8: whenever the exclusion-filtered streams of the map hold a cached record,
\* getBestStream returns a cached record.
C8_CachedAlwaysWins ==
  BestApplied =>
    LET cands == Candidates(rkStreamsData, rkExcluded)
    IN  (\E i \in 1..Len(cands) : cands[i].stream.cached)
          => (rkResult.value # Null /\ rkResult.value.cached)

\* a cached candidate is beaten on quality and on provider priority by a
\* non-cached one, and getBestStream has returned
C8_Witness ==
  /\ BestApplied
  /\ LET cands == Candidates(rkStreamsData, rkExcluded)
     IN  \E i, j \in 1..Len(cands) :
            /\ cands[i].stream.cached /\ ~cands[j].stream.cached
            /\ BestKey(cands[j], rkInstalled)[2] > BestKey(cands[i], rkInstalled)[2]
            /\ BestKey(cands[j], rkInstalled)[3] > BestKey(cands[i], rkInstalled)[3]
  /\ rkResult.value.cached

\* C9: getBestStream returns the first candidate in the order cached
\* descending, quality descending, provider priority descending (the earliest
\* of the candidates no other candidate precedes), and returns the same under
\* both sort modes.
C9_BestIsFirstOfFixedOrder ==
  BestApplied =>
    LET cands == Candidates(rkStreamsData, rkExcluded)
        key(i) == BestKey(cands[i], rkInstalled)
        first == { i \in 1..Len(cands) :
                     /\ \A j \in 1..Len(cands) : ~LexBefore(key(j), key(i))
                     /\ \A j \in 1..(i - 1) : key(j) # key(i) }
    IN  /\ Len(cands) = 0 => rkResult.value = Null
        /\ Len(cands) > 0 =>
             \E i \in first : rkResult.value = cands[i].stream
        /\ \A mode \in SortModes :
             getBestStream(rkStreamsData, rkExcluded, mode, rkInstalled)
               = rkResult.value

\* the display order (provider first) and the fixed order disagree on the
\* first candidate, and getBestStream has returned the better quality
C9_Witness ==
  /\ BestApplied
  /\ rkSortMode = "scraper-then-quality"
  /\ rkResult.value # Null
  /\ LET cands == Candidates(rkStreamsData, rkExcluded)
     IN  \E i, j \in 1..Len(cands) :
            /\ rkResult.value = cands[i].stream
            /\ cands[i].stream.cached = cands[j].stream.cached
            /\ BestKey(cands[i], rkInstalled)[2] > BestKey(cands[j], rkInstalled)[2]
            /\ BestKey(cands[i], rkInstalled)[3] < BestKey(cands[j], rkInstalled)[3]

\* cached, then the two keys in the order of the sort mode
SortKey(stream, mode, installed) ==
  LET priority == getProviderPriority(installed,
                    IF stream.addonId # "" THEN stream.addonId
                    ELSE stream.addonName)
  IN  IF mode = "quality-then-scraper"
      THEN <<CachedRank(stream), QualityOf(stream), priority>>
      ELSE <<CachedRank(stream), priority, QualityOf(stream)>>

\* C10: the result of sortStreams holds the input's records ordered by cached
\* descending, then (quality-first) quality and provider priority descending
\* or (provider-first) provider priority and quality descending; records with
\* equal keys are in their input order.
C10_SortOrderAndStability ==
  SortApplied =>
    LET input == AllStreamsOf(rkStreamsData)
        out == rkResult.value
        key(s) == SortKey(s, rkSortMode, rkInstalled)
    IN  /\ Len(out) = Len(input)
        /\ \A i, j \in 1..Len(out) : i < j => ~LexBefore(key(out[j]), key(out[i]))
        /\ \A x \in Range(input) :
             LET tie(s) == key(s) = key(x)
             IN  SelectSeq(out, tie) = SelectSeq(input, tie)

\* sortStreams has reordered an input that holds two different records with
\* equal keys and a record that the two modes place differently
C10_Witness ==
  /\ SortApplied
  /\ LET input == AllStreamsOf(rkStreamsData)
         key(s) == SortKey(s, rkSortMode, rkInstalled)
     IN  /\ rkResult.value # input
         /\ \E i, j \in 1..Len(input) :
               i < j /\ input[i] # input[j] /\ key(input[i]) = key(input[j])
         /\ rkResult.value #
              sortStreams(input,
                          CHOOSE m \in SortModes : m # rkSortMode, rkInstalled)

\* C11: sorting the result of sortStreams again, under the same sort mode and
\* the same installed order, returns it unchanged.
C11_SortIsIdempotent ==
  SortApplied =>
    sortStreams(rkResult.value, rkSortMode, rkInstalled) = rkResult.value

\* sortStreams has moved a record of an input that holds two different
\* records with equal keys
C11_Witness ==
  /\ SortApplied
  /\ LET input == AllStreamsOf(rkStreamsData)
         key(s) == SortKey(s, rkSortMode, rkInstalled)
     IN  /\ rkResult.value # input
         /\ Len(input) = MaxStreams
         /\ \E i, j \in 1..Len(input) :
               input[i] # input[j] /\ key(input[i]) = key(input[j])

FilterApplied == rkResult # Null /\ rkResult.op = "filterStreamsByQuality"

\* the title field of a record matches an excluded pattern, ignoring case
TitleExcluded(stream, patterns) ==
  \E k \in 1..Len(patterns) : ContainsIgnoreCase(stream.title, patterns[k])

\* C12 (as stated): filterStreamsByQuality returns exactly the records, in
\* their original order, whose title matches none of the excluded patterns,
\* ignoring case.
C12_KeepsExactlyUnmatchedTitles ==
  FilterApplied =>
    LET input == AllStreamsOf(rkStreamsData)
        kept(s) == ~TitleExcluded(s, rkExcluded)
    IN  rkResult.value = SelectSeq(input, kept)

\* C12 (amended): filterStreamsByQuality returns exactly the records, in their
\* original order, whose title -- or name, for a record without a title --
\* matches none of the excluded patterns, ignoring case; with no excluded
\* pattern it returns every record, and a record whose title or (without a
\* title) name matches a pattern is never in the output.
C12_KeepsExactlyUnmatched ==
  FilterApplied =>
    LET input == AllStreamsOf(rkStreamsData)
        kept(s) == ~Excluded(s, rkExcluded)
    IN  /\ rkResult.value = SelectSeq(input, kept)
        /\ Len(rkExcluded) = 0 => rkResult.value = input
        /\ \A i \in 1..Len(rkResult.value) :
              ~Excluded(rkResult.value[i], rkExcluded)

\* the filter has dropped a record whose text differs from the pattern in
\* case, and kept a record before and a record after it
C12_Witness ==
  /\ FilterApplied
  /\ LET input == AllStreamsOf(rkStreamsData)
     IN  /\ Len(input) = MaxStreams
         /\ Excluded(input[2], rkExcluded)
         /\ \A k \in 1..Len(rkExcluded) :
               OrElse(input[2].title, input[2].name) # rkExcluded[k]
         /\ rkResult.value = <<input[1], input[3]>>

(***************************************************************************)
(* Classifier claims (specification SpecClassify).                         *)
(***************************************************************************)
PriorityApplied == rkResult # Null /\ rkResult.op = "getProviderPriority"

\* the places of an addon in the installed order
PlacesOf(addonId) == { i \in 1..Len(rkInstalled) : rkInstalled[i] = addonId }

\* C14: the priority of a provider is 50 minus its index in the installed
\* order, and 0 when it is absent from it; an installed provider scores
\* strictly more than every provider installed after it and than an absent
\* provider, and no score is negative.
C14_PriorityOrdersProviders ==
  PriorityApplied =>
    LET places == PlacesOf(rkResult.arg)
        priority(a) == getProviderPriority(rkInstalled, a)
    IN  /\ places = {} => rkResult.value = 0
        /\ \A i \in places :
              /\ rkResult.value = 50 - (i - 1)
              /\ \A j \in (i + 1)..Len(rkInstalled) :
                    rkResult.value > priority(rkInstalled[j])
              /\ rkResult.value > priority(AbsentAddon)
        /\ priority(AbsentAddon) = 0
        /\ rkResult.value >= 0

QualityApplied == rkResult # Null /\ rkResult.op = "getQualityNumeric"

\* the number that starts at position i of a title
NumberAt(title, i) == ParseInt(SubSeq(title, i, DigitRunEnd(title, i)))

\* C15: getQualityNumeric applies its rules in order: a title with a 4K token
\* yields 2160; otherwise the first number immediately followed by p yields
\* that number; otherwise the first bare number of the known resolutions
\* yields that number; otherwise the result is 0.  A title with 1080p yields
\* 1080, a bare 720 yields 720, a bare 9999 and a title without a number
\* yield 0.
C15_QualityRuleOrder ==
  QualityApplied =>
    LET title == rkResult.arg
        quality == rkResult.value
        withP == WithPStarts(title)
        bare == BareStarts(title)
    IN  /\ Has4K(title) => quality = 2160
        /\ ~Has4K(title) /\ withP # {} => quality = NumberAt(title, Min(withP))
        /\ ~Has4K(title) /\ withP = {} /\ bare # {} =>
              /\ quality = NumberAt(title, Min(bare))
              /\ quality \in {240, 360, 480, 720, 1080, 1440, 2160, 4320, 8000}
        /\ ~Has4K(title) /\ withP = {} /\ bare = {} => quality = 0
        /\ title = T1080p => quality = 1080
        /\ title = T720 => quality = 720
        /\ title = T9999 => quality = 0
        /\ title \in {NoText, TNoNumber} => quality = 0
        /\ title \in {T4K, T4K1080p, T1080pThen4k} => quality = 2160
        /\ title = T720then1080p => quality = 1080
        /\ title = T9999then480 => quality = 480

\* getQualityNumeric has classified a title that holds a bare resolution
\* before a number followed by p, and returned the number followed by p
C15_Witness ==
  /\ QualityApplied
  /\ rkResult.arg = T720then1080p
  /\ BareStarts(rkResult.arg) # {}
  /\ Min(BareStarts(rkResult.arg)) < Min(WithPStarts(rkResult.arg))
  /\ rkResult.value = 1080

(***************************************************************************)
(* Display claims (specification SpecDisplay).                             *)
(***************************************************************************)
\* the provider ids the screen lists as having streams: the available
\* providers and the chips of the provider filter
ListedProviders ==
  Range(availableProviders)
    \cup ({ filterItems[i].id : i \in 1..Len(filterItems) }
            \ {"all", "grouped-plugins"})

\* provider p has a stream in the current map that no excluded pattern matches
HasDisplayableStream(p) ==
  /\ HasKey(currentStreamsData, p)
  /\ \E j \in 1..Len(Entry(currentStreamsData, p).streams) :
        ~Excluded(Entry(currentStreamsData, p).streams[j], rkExcluded)

\* C13: in every display mode and for every selected provider, no record that
\* matches an excluded pattern is in a section or among the candidates of
\* getBestStream, and a provider of the current map whose records are all
\* excluded is not listed as a provider with streams.
C13_ExcludedNeverShownOrCounted ==
  /\ \A i \in 1..Len(sections) : \A j \in 1..Len(sections[i].data) :
        ~Excluded(sections[i].data[j], rkExcluded)
  /\ LET allStreams ==
           CollectAllStreams(currentStreamsData, rkExcluded, rkInstalled)
     IN  \A i \in 1..Len(allStreams) :
            ~Excluded(allStreams[i].stream, rkExcluded)
  /\ \A p \in ListedProviders :
        HasKey(currentStreamsData, p) => HasDisplayableStream(p)

(***************************************************************************)
(* Request claims (specifications Spec and SpecAutoplay).                  *)
(***************************************************************************)
\* checkProviders finds a provider and calls loadStreams / loadEpisodeStreams
LoadInvoked == Len(checks') < Len(checks) /\ hasStreamProviders'

\* C16: every time checkProviders finds a provider and starts the load of the
\* route's movie or episode, the map of the screen is empty right after the
\* call: it holds no entry of the previous request.
C16_InvocationClearsMap ==
  [][LoadInvoked => currentStreamsData' = << >>]_vars

\* C17: from the start of a request the map holds an entry for every known
\* adapter (pending until its first batch, then partial, then done or
\* errored): while the adapters of the latest request are in flight, every
\* installed addon has an entry.
C17_EntryForEveryAdapterFromStart ==
  (Len(reqs) > 0 /\ reqs[Current].stremio = "pending")
    => \A a \in Addons : HasKey(currentStreamsData, a)

\* C18: a provider that answered with an empty list, and with nothing else
\* since the map was cleared, has an entry in the map, with zero records.
C18_EmptyResultIsRecorded ==
  \A k \in DOMAIN reported \ Delivered :
     /\ HasKey(currentStreamsData, k)
     /\ Entry(currentStreamsData, k).streams = << >>

\* the timeout callback of a request runs
TimeoutStep ==
  /\ Len(reqs') = Len(reqs)
  /\ \E r \in Requests : reqs[r].timer = "armed" /\ reqs'[r].timer = "fired"

\* C19: the timeout callback changes nothing but the loading flag: the maps
\* and the state of every adapter call stay as they are; and a batch that is
\* delivered after the timeout of the current request has fired is merged
\* into the map.
C19_TimeoutChangesOnlyLoading ==
  [][/\ TimeoutStep =>
          /\ UNCHANGED <<groupedStreams, episodeStreams, metadata, routeVars,
                         screenVars, checks, noSourcesTimers>>
          /\ \A r \in Requests :
                /\ reqs'[r].stremio = reqs[r].stremio
                /\ reqs'[r].plugin = reqs[r].plugin
                /\ reqs'[r].phase = reqs[r].phase
     /\ \A k \in DOMAIN reported' :
          ( /\ Len(reqs) > 0 /\ Len(reqs') = Len(reqs)
            /\ reqs[Current].timer = "fired"
            /\ (k \notin DOMAIN reported \/ reported'[k] # reported[k])
            /\ reported'[k].last # << >> )
          => /\ HasKey(currentStreamsData', k)
             /\ Entry(currentStreamsData', k).streams = reported'[k].last]_vars

\* the timeout of the only request has fired, and the map holds the streams
\* of both addons
C19_Witness ==
  /\ Len(reqs) = 1
  /\ reqs[1].timer = "fired"
  /\ Keys(currentStreamsData) = {"A1", "A2"}
  /\ StreamsOf("A1") = <<SA1lo, SA1hi>>

\* C20: a step in which a provider fails (an error passed to the callback, or
\* an adapter call that throws) after streams were delivered in the same
\* request leaves the map as it was: the streams that provider delivered
\* earlier and the entries of the other providers.  The steps covered are
\* those after which a failure has happened, in which no batch is reported
\* and no request starts.
C20_ErrorKeepsDelivered ==
  [][( /\ failures'
       /\ reported' = reported
       /\ Len(reqs') = Len(reqs)
       /\ Delivered # {} )
     => currentStreamsData' = currentStreamsData]_vars

\* a provider has failed while getStreams of the only request is still
\* running, and the map holds the two batches addon A1 delivered and the
\* entry of addon A2
C20_Witness ==
  /\ failures
  /\ Len(reqs) = 1
  /\ reqs[1].stremio = "pending"
  /\ StreamsOf("A1") = <<SA1lo, SA1hi>>
  /\ StreamsOf("A2") = <<SA2c>>

WaitingEnds ==
  /\ isAutoplayWaiting /\ ~isAutoplayWaiting'
  /\ Len(checks') >= Len(checks)

\* C22: while autoplay waits for a request, it keeps waiting until a stream
\* passes the exclusion filter: the waiting of a request ends only in a step
\* that hands a stream to the player, so a passing record that arrives later
\* is still played.
C22_WaitsUntilCandidate ==
  [][WaitingEnds => Len(plays') > Len(plays)]_vars


\* the autoplay effect calls handleStreamPress in this step
PlaybackInvoked == Len(plays') > Len(plays)

\* C23: a request that is superseded while autoplay waits for it is no longer
\* played: whenever autoplay hands a stream to the player, the map it was
\* taken from is the map of the request for the content the route names now.
C23_SupersededRequestIsNotPlayed ==
  [][PlaybackInvoked => Len(reqs) > 0 /\ reqs[Current].id = target]_vars


(***************************************************************************)
(* Claims about the state display (specification Spec).                    *)
(***************************************************************************)
\* providers are configured and the request has ended with an empty map:
\* both adapters have settled and the 15 s timeout has fired
RequestEndedEmpty ==
  /\ hasStreamProviders /\ checks = << >>
  /\ Len(reqs) > 0
  /\ reqs[Current].stremio # "pending" /\ reqs[Current].plugin # "pending"
  /\ reqs[Current].timer = "fired"
  /\ streamsEmpty

\* checkProviders found no provider in this step
NoProviderFound == Len(checks') < Len(checks) /\ ~hasStreamProviders'

\* C24 (first half): when checkProviders finds no provider it launches no
\* adapter and leaves the map alone, and it arms the timer that surfaces the
\* "no sources" view.
C24_NoProviderLaunchesNothing ==
  [][NoProviderFound => /\ reqs' = reqs
                        /\ currentStreamsData' = currentStreamsData
                        /\ noSourcesTimers' = noSourcesTimers + 1]_vars

\* C24: the "no sources configured" view is shown when no provider is
\* configured, and it is never the view shown when providers are configured
\* and the request ended without streams.
C24_NoSourcesStateIsDistinct ==
  RequestEndedEmpty
    => \A start \in LoadStartTimes, now \in ClockReadings :
          StateDisplay(start, now) # "no-sources"

\* C25: when providers are configured and the request has ended with an empty
\* map, some render after the timeout shows the "no streams available" view
\* rather than a loading view.
C25_EmptyAfterTimeoutIsSurfaced ==
  (RequestEndedEmpty /\ ~showNoSourcesError)
    => \A start \in LoadStartTimes : \E now \in ClockReadings :
          StateDisplay(start, now) = "no-streams"


(***************************************************************************)
(* Claims about the sections (specification SpecDisplay).                  *)
(***************************************************************************)
\* no record that is not cached stands before a cached record
CachedFirst(list) ==
  \A i, j \in 1..Len(list) :
     i < j => CachedRank(list[i]) >= CachedRank(list[j])

\* C26: in every section the screen displays, in either display mode and
\* under either sort mode, no record that is not cached precedes a cached
\* record.
C26_CachedFirstInEverySection ==
  \A i \in 1..Len(sections) : CachedFirst(sections[i].data)


\* the providers of the map that have a stream the quality filter keeps
DisplayableProviders ==
  { k \in Keys(currentStreamsData) :
      Len(filterStreamsByQuality(Entry(currentStreamsData, k).streams,
                                 rkExcluded)) > 0 }

\* C27: in per-provider display mode with every provider selected, the
\* sections are exactly one per provider that has a stream the quality filter
\* keeps: no section is empty and none of these providers lacks a section.
C27_OneSectionPerDisplayableProvider ==
  (streamDisplayMode = "separate" /\ selectedProvider = "all")
    => /\ \A i \in 1..Len(sections) : Len(sections[i].data) > 0
       /\ \A i, j \in 1..Len(sections) :
            sections[i].addonId = sections[j].addonId => i = j
       /\ { sections[i].addonId : i \in 1..Len(sections) }
            = DisplayableProviders


\* the provider ids of the display specification in alphabetical order
ProvidersAlphabetical == <<"A1", "A2", "P1", "Unknown Plugin">>

AlphabeticalPlace(provider) ==
  CHOOSE i \in 1..Len(ProvidersAlphabetical) : ProvidersAlphabetical[i] = provider

\* provider a stands before provider b: installed providers in installed
\* order, then the others in alphabetical order
StandsBefore(a, b) ==
  IF isInstalledAddon(a) /\ isInstalledAddon(b)
  THEN FindIndex(rkInstalled, a) < FindIndex(rkInstalled, b)
  ELSE IF isInstalledAddon(a) THEN TRUE
  ELSE IF isInstalledAddon(b) THEN FALSE
  ELSE AlphabeticalPlace(a) < AlphabeticalPlace(b)

\* C28: in per-provider display mode the sections of the installed providers
\* come first, in installed order, and the sections of the other providers
\* follow in alphabetical order, whatever the order of the map's keys.
C28_SectionsInProviderOrder ==
  streamDisplayMode = "separate"
    => \A i, j \in 1..Len(sections) :
          i < j => StandsBefore(sections[i].addonId, sections[j].addonId)


\* the records the sections show
ShownRecords == UNION { Range(sections[i].data) : i \in 1..Len(sections) }

\* the records of the providers in ks that the quality filter keeps
RecordsOf(ks) ==
  UNION { Range(filterStreamsByQuality(Entry(currentStreamsData, k).streams,
                                       rkExcluded)) : k \in ks }

\* the providers the selection of the provider filter stands for
SelectedProviders ==
  IF selectedProvider = "all" THEN Keys(currentStreamsData)
  ELSE IF selectedProvider = "grouped-plugins"
  THEN { k \in Keys(currentStreamsData) : ~isInstalledAddon(k) }
  ELSE Keys(currentStreamsData) \cap {selectedProvider}

\* C29: in either display mode the sections show the records of every
\* provider when 'all' is selected, of the selected provider alone when a
\* provider id is selected, and of exactly the providers that are not
\* installed addons when 'grouped-plugins' is selected.
C29_SelectionShowsItsProviders ==
  ShownRecords = RecordsOf(SelectedProviders)


(***************************************************************************)
(* Claims about the plugin adapter (specification SpecPlugin).             *)
(***************************************************************************)
\* the key the claim gives a plugin stream: the first line of its name, or
\* 'Unknown Plugin' when the name is absent or empty
ClaimedPluginKey(stream) ==
  IF "name" \in DOMAIN stream /\ FirstLine(stream.name) # << >>
  THEN Join(FirstLine(stream.name))
  ELSE "Unknown Plugin"

\* C30: after the plugin adapter has processed a result, every stream of the
\* result is in the map under the first line of its name, or under
\* 'Unknown Plugin' when its name is absent or empty, in no other group, and
\* each group holds its streams in the order of the result; a stream without
\* a name does not lose the result.
C30_PluginStreamsGroupedByName ==
  rkResult # Null =>
    LET batch == rkResult.arg
        groupOf(k) == SelectSeq(batch, LAMBDA s : ClaimedPluginKey(s) = k)
    IN  \A i \in 1..Len(batch) :
          LET k == ClaimedPluginKey(batch[i])
          IN  /\ HasKey(currentStreamsData, k)
              /\ Entry(currentStreamsData, k).streams = groupOf(k)
              /\ \A j \in 1..Len(currentStreamsData) :
                   batch[i] \in Range(currentStreamsData[j].streams)
                     => currentStreamsData[j].key = k


(***************************************************************************)
(* Further ranking claims (specification SpecRank).                        *)
(***************************************************************************)
\* C31: a call of sortStreams, filterStreamsByQuality or getBestStream leaves
\* the result map it was given as it is: the same providers, each with the
\* same records in the same order.
C31_RankingLeavesInputUnchanged ==
  [][(rkResult' # rkResult) => rkStreamsData' = rkStreamsData]_vars

\* sortStreams has returned a list whose order differs from the order of the
\* map's only entry, which still holds its records in their original order
C31_Witness ==
  /\ SortApplied
  /\ Len(rkStreamsData) = 1
  /\ rkResult.value # rkStreamsData[1].streams
  /\ Len(rkResult.value) = Len(rkStreamsData[1].streams)


\* C32: getBestStream returns null exactly when no record of the map is left
\* after the exclusion filter (the map is empty, its providers hold no
\* streams, or every record is excluded); otherwise it returns a record of
\* the map that passes the filter.
C32_NullIffNoCandidate ==
  BestApplied =>
    LET cands == Candidates(rkStreamsData, rkExcluded)
    IN  /\ (rkResult.value = Null) <=> (Len(cands) = 0)
        /\ rkResult.value # Null =>
             \E i \in 1..Len(cands) : cands[i].stream = rkResult.value

\* getBestStream has returned a record of a map that also holds an excluded
\* record, one that is cached or of a higher quality than the record returned
C32_Witness ==
  /\ BestApplied
  /\ rkResult.value # Null
  /\ \E s \in Range(AllStreamsOf(rkStreamsData)) :
        /\ Excluded(s, rkExcluded)
        /\ \/ s.cached /\ ~rkResult.value.cached
           \/ QualityOf(s) > QualityOf(rkResult.value)


(***************************************************************************)
(* Further request claims (specification Spec).                            *)
(***************************************************************************)
\* C33: the 15 s timeout runs from the start of the request: every request
\* that has launched its adapters has its timer armed (or fired), whether or
\* not its adapters have returned.
C33_TimerArmedAtRequestStart ==
  \A r \in Requests : reqs[r].timer # "unarmed"


(***************************************************************************)
(* Further claims about the sections (specification SpecDisplay).          *)
(***************************************************************************)
\* the filtered and sorted records of the selected providers of one bucket
\* (installed addons, or the others), concatenated in the order of the
\* providers
BucketConcat(installed) ==
  LET chosen == SelectSeq(currentStreamsData,
                          LAMBDA e : /\ e.key \in SelectedProviders
                                     /\ isInstalledAddon(e.key) = installed)
      cmp == [a \in Range(chosen) |-> [b \in Range(chosen) |->
                CompareInstalled(a.key, b.key)]]
      ordered == ArraySort(cmp, chosen)
  IN  Flatten([i \in 1..Len(ordered) |->
                 sortStreams(filterStreamsByQuality(ordered[i].streams,
                                                    rkExcluded),
                             rkSortMode, rkInstalled)])

\* C34: in grouped display mode each section holds sortStreams, under the
\* active sort mode, of the concatenation of the filtered and sorted records
\* of its providers, under the provider-first and the quality-first mode.
C34_GroupedSectionIsSortedConcat ==
  streamDisplayMode = "grouped" =>
    \A i \in 1..Len(sections) :
       sections[i].data =
         sortStreams(BucketConcat(sections[i].addonId = "grouped-addons"),
                     rkSortMode, rkInstalled)


(***************************************************************************)
(* Ranking claims about the order of the map (specification SpecRank).     *)
(***************************************************************************)
\* the map with its entries in the opposite order: the same providers with
\* the same stream lists, had they arrived the other way round
ReverseEntries(streamsData) ==
  [i \in 1..Len(streamsData) |-> streamsData[Len(streamsData) + 1 - i]]

\* C35: getBestStream depends on the content of the map only: for the map
\* holding the same providers with the same stream lists in another order of
\* arrival it returns the same record.
C35_BestIgnoresArrivalOrder ==
  BestApplied =>
    getBestStream(ReverseEntries(rkStreamsData), rkExcluded, rkSortMode,
                  rkInstalled) = rkResult.value


C37_SupersededRequestKeepsLoading ==
  [][\A r \in Requests :
        ( /\ Len(reqs') = Len(reqs)
          /\ r < Current
          /\ reqs'[r] # reqs[r] )
        => isLoading' = isLoading]_vars


(***************************************************************************)
(* Claims about the provider filter (specification SpecDisplay).           *)
(***************************************************************************)
\* the providers that have streams in the map
ProvidersInMap == Range(providersWithStreams(currentStreamsData))

\* the two effects on the stream state have run: running them again would
\* change neither availableProviders nor selectedProvider
EffectsHaveRun ==
  /\ ProvidersInMap \subseteq Range(availableProviders)
  /\ selectedProvider \notin {"all", "grouped-plugins"}
       => \/ selectedProvider \in Range(availableProviders)
          \/ selectedProvider \in ProvidersInMap

\* C38: once the effects have run, a selected provider id names a provider
\* that has streams in the map of the current request, and the available
\* providers are providers that have streams in that map: none of an earlier
\* request is left.
C38_NoStaleProviderInFilter ==
  EffectsHaveRun
    => /\ selectedProvider \notin {"all", "grouped-plugins"}
            => selectedProvider \in ProvidersInMap
       /\ Range(availableProviders) \subseteq ProvidersInMap


(***************************************************************************)
(* Claims about the provider check (specification Spec).                   *)
(***************************************************************************)
\* C39: whenever showNoSourcesError is set, the latest checkProviders call
\* that answered found neither an installed addon nor an enabled local
\* scraper, also after the route changed or providers became available.
C39_NoSourcesErrorOnlyWithoutProviders ==
  showNoSourcesError => ~hasStreamProviders


\* checkProviders calls loadStreams / loadEpisodeStreams in this step, and
\* the call stops at its guard: the metadata of the closure is not loaded,
\* or has no episode list, or does not list the episode
AbortedLoad ==
  /\ Len(checks') < Len(checks) /\ hasStreamProviders'
  /\ ~LoadGuard(checks[1].metadata, checks[1].target)

\* C40: a call of loadStreams or loadEpisodeStreams that stops at its guard
\* launches no adapter and leaves the map and the loading flag as they are.
C40_AbortedLoadChangesNothing ==
  [][AbortedLoad => /\ reqs' = reqs
                    /\ currentStreamsData' = currentStreamsData
                    /\ isLoading' = isLoading]_vars

\* the load for episode Z, which the metadata does not list, was called and
\* has stopped at its guard: the map still holds the streams of the request
\* before it
C40_Witness ==
  /\ target = "Z" /\ checks = << >>
  /\ Len(reqs) > 0 /\ reqs[Current].id # "Z"
  /\ Len(currentStreamsData) > 0

=============================================================================
